---- MODULE Spec2Model ----
(***************************************************************************)
(* State-machine model of src/asteroids.js: the entity registry            *)
(* (gameWorldObjects), the per-frame simulation step (updateGameWorld and  *)
(* the update methods of Ship, Bullet and Asteroid), scoring, the scene    *)
(* state machine and the requestAnimationFrame chain.                      *)
(*                                                                         *)
(* Conventions.                                                            *)
(*  - The registry is a sequence of entity records.  Slot numbers, the     *)
(*    loop variable i and the field gameWorldIndex are 0-based as in the   *)
(*    JavaScript; slot s of the array is gameWorldObjects[s + 1] here.     *)
(*  - Positions and velocities are whole pixels, angles whole degrees and  *)
(*    multiples of 90, so that cos/sin are exact.  Math.random() results   *)
(*    are inputs drawn from the seed sets below.                           *)
(*  - The script is single-threaded: a handler runs to completion.  The    *)
(*    update loop of one tick is modelled one iteration per step (pc, i),  *)
(*    and no key handler or frame callback is enabled while a tick is in   *)
(*    progress.                                                            *)
(*  - keysDown is read once per tick by handleUserInput; between two       *)
(*    ticks any sequence of keydown/keyup events can set it to any value,  *)
(*    so the set of held keys is an input of each tick.  The thrust key    *)
(*    (38) is not among the inputs: the ship's velocity stays (0, 0).      *)
(*  - id, nominal and the variables updated, startIds, lastUpdate, hits,   *)
(*    collided, turns, resetFrom, leftPlaying and lastOp are history       *)
(*    variables: they record what the code did and never influence it.     *)
(***************************************************************************)
EXTENDS Integers, Sequences, FiniteSets, TLC

\* ---------------------------------------------------------------- constants

\* GameState enum (asteroids.js:25-31)
TITLE_SCREEN_SCENE == "TITLE_SCREEN_SCENE"
MAIN_LEVEL_SCENE == "MAIN_LEVEL_SCENE"
WIN_LEVEL_SCENE == "WIN_LEVEL_SCENE"
GAME_OVER_SCENE == "GAME_OVER_SCENE"
CREDITS_SCENE == "CREDITS_SCENE"

\* AsteroidRadius enum (asteroids.js:37-41)
RadiusLarge == 80
RadiusMedium == 40
RadiusSmall == 20

\* AsteroidMaxVelocity enum (asteroids.js:47-51)
MaxVelocityLarge == 3
MaxVelocityMedium == 5
MaxVelocitySmall == 7

\* AsteroidScore enum (asteroids.js:57-61)
ScoreLarge == 20
ScoreMedium == 50
ScoreSmall == 100

ShipRadius == 20
BulletRadius == 3
BulletMaxVelocity == 11
FireRateMs == 200
RetryCap == 100
DefaultAsteroids == 5
DefaultRadius == 15

\* canvas.width / canvas.height (window.innerWidth / innerHeight at load)
CanvasWidth == 40
CanvasHeight == 160

\* ------------------------------------------------------------------- bounds

\* most bullets in flight at once (the fire key is not offered beyond it)
MaxBullets == 2
\* highest level played (the advance command is not offered beyond it)
MaxLevel == 2
\* most frame callbacks pending at once (start is not offered beyond it)
MaxPending == 2
\* most ticks per level in which a rotation key is held
MaxTurns == 1
\* longest registry handed to the win check on its own (SpecWin)
MaxRegistry == 4

\* elapsed milliseconds between two frames offered to a tick
DeltaMs == {180}
\* elapsed milliseconds offered to the tick that startGame runs: "then" is
\* set when the script loads and at the end of a tick, never by startGame
StartDeltaMs == {180, 1440}
\* holds of the keys that handleUserInput reads: 37 left, 39 right, 32 space
KeySets == {{}, {32}, {37}, {39}, {32, 37}}

\* ------------------------------------------------------------ small helpers

Min(a, b) == IF a < b THEN a ELSE b

\* JavaScript % on integers: the result takes the sign of the dividend
JsMod(a, m) == IF a >= 0 THEN a % m ELSE -((-a) % m)

\* cos and sin of an angle in degrees that is a multiple of 90
Cos90(a) == CASE a % 360 = 0 -> 1
              [] a % 360 = 180 -> -1
              [] OTHER -> 0

Sin90(a) == CASE a % 360 = 90 -> 1
              [] a % 360 = 270 -> -1
              [] OTHER -> 0

\* the least natural number not in used (fresh history id)
FreshId(used) == CHOOSE n \in 0..Cardinality(used) :
                    n \notin used /\ \A m \in 0..(n - 1) : m \in used

Ids(objs) == {objs[k].id : k \in 1..Len(objs)}

\* history ids of a tick: every object is named by its slot at tick start
Renumber(objs) == [k \in 1..Len(objs) |-> [objs[k] EXCEPT !.id = k - 1]]

IsAsteroid(o) == o.kind = "Asteroid"

NumOf(objs, kind) == Cardinality({k \in 1..Len(objs) : objs[k].kind = kind})

\* ------------------------------------------------- GameWorldObject (base)

\* GameWorldObject constructor: the new object stores the registry length
GameWorldObject(objs, kind, id, x, y, vx, vy, angle, radius) ==
    [kind |-> kind, id |-> id, gameWorldIndex |-> Len(objs),
     x |-> x, y |-> y, vx |-> vx, vy |-> vy, angle |-> angle,
     radius |-> IF radius = 0 THEN DefaultRadius ELSE radius,
     timesWarped |-> 0, rotation |-> 0, nominal |-> 0, geometry |-> <<>>,
     updates |-> 0]

\* Array.prototype.splice(start, 1): a negative start counts from the end
Splice(objs, start) ==
    LET n == Len(objs)
        s == IF start < 0 THEN (IF n + start < 0 THEN 0 ELSE n + start) ELSE start
    IN IF s >= n THEN objs
       ELSE [k \in 1..(n - 1) |-> IF k <= s THEN objs[k] ELSE objs[k + 1]]

\* variant: destroy() splices the slot before the stored index
DestroyPrevious(objs, idx) ==
    LET cut == Splice(objs, idx - 1)
    IN [k \in 1..Len(cut) |->
          IF k - 1 >= idx - 1
            THEN [cut[k] EXCEPT !.gameWorldIndex = cut[k].gameWorldIndex - 1]
            ELSE cut[k]]

\* variant: destroy() without the loop that fixes the stored indexes
DestroyNoReindex(objs, idx) == Splice(objs, idx)

\* GameWorldObject.prototype.destroy, for an object whose stored index is idx
Destroy(objs, idx) ==
    LET cut == Splice(objs, idx)
    IN [k \in 1..Len(cut) |->
          IF k - 1 >= idx
            THEN [cut[k] EXCEPT !.gameWorldIndex = cut[k].gameWorldIndex - 1]
            ELSE cut[k]]

\* GameWorldObject.prototype.rotate
Rotate(o, degrees) ==
    LET a == o.angle + degrees
    IN [o EXCEPT !.angle = IF a >= 360 THEN JsMod(a, 360)
                           ELSE IF a < 0 THEN a + 360
                           ELSE a]

\* one axis of GameWorldObject.prototype.update: <<new position, wraps>>
AdvanceAxis(p, v, edge) ==
    LET q == p + v
    IN IF q > edge THEN <<q - (edge - 1), 1>>
       ELSE IF q < 0 THEN <<q + (edge - 1), 1>>
       ELSE <<q, 0>>

\* what the wrap branches of one axis add to every outline vertex
WrapShift(p, v, edge) ==
    IF p + v > edge THEN -(edge - 1)
    ELSE IF p + v < 0 THEN edge - 1
    ELSE 0

\* variant: the wrap branches move the position only
MoveOutlineNoWrap(o) ==
    [k \in 1..Len(o.geometry) |->
        [x |-> o.geometry[k].x + o.vx, y |-> o.geometry[k].y + o.vy]]

\* the outline after update(): the wrap shift of each axis, then the velocity
MoveOutline(o) ==
    [k \in 1..Len(o.geometry) |->
        [x |-> o.geometry[k].x + WrapShift(o.x, o.vx, CanvasWidth) + o.vx,
         y |-> o.geometry[k].y + WrapShift(o.y, o.vy, CanvasHeight) + o.vy]]

\* variant: timesWarped++ once per update that wraps
AdvanceCountsOnce(o) ==
    LET ax == AdvanceAxis(o.x, o.vx, CanvasWidth)
        ay == AdvanceAxis(o.y, o.vy, CanvasHeight)
    IN [o EXCEPT !.x = ax[1], !.y = ay[1],
                 !.timesWarped = o.timesWarped + (IF ax[2] + ay[2] > 0 THEN 1 ELSE 0),
                 !.geometry = MoveOutline(o)]

\* GameWorldObject.prototype.update
Advance(o) ==
    LET ax == AdvanceAxis(o.x, o.vx, CanvasWidth)
        ay == AdvanceAxis(o.y, o.vy, CanvasHeight)
    IN [o EXCEPT !.x = ax[1], !.y = ay[1],
                 !.timesWarped = o.timesWarped + ax[2] + ay[2],
                 !.geometry = MoveOutline(o)]

\* distanceApart < this.radius * 0.9 + asteroid.radius * 0.9, squared and
\* scaled by 100 (both sides are non-negative)
Collides(o, asteroid) ==
    LET dx == o.x - asteroid.x
        dy == o.y - asteroid.y
        r == o.radius + asteroid.radius
    IN 100 * (dx * dx + dy * dy) < 81 * r * r

\* the first slot (0-based) holding an asteroid that collides with o, or -1
FirstCollision(objs, o) ==
    LET hit == {k \in 1..Len(objs) : IsAsteroid(objs[k]) /\ Collides(o, objs[k])}
    IN IF hit = {} THEN -1
       ELSE (CHOOSE k \in hit : \A m \in hit : k <= m) - 1

\* ------------------------------------------------------- Ship and Bullet

\* Ship constructor (radius 20, angle 90 at the only call site)
Ship(objs, id, x, y) ==
    [GameWorldObject(objs, "Ship", id, x, y, 0, 0, 90, ShipRadius)
        EXCEPT !.geometry = <<[x |-> x + ShipRadius, y |-> y],
                              [x |-> x - ShipRadius, y |-> y + (ShipRadius * 3) \div 4],
                              [x |-> x - ShipRadius \div 2, y |-> y],
                              [x |-> x - ShipRadius, y |-> y - (ShipRadius * 3) \div 4]>>]

\* variant: a bullet constructed at rest
BulletAtRest(objs, id, x, y, angle) ==
    [GameWorldObject(objs, "Bullet", id, x, y, 0, 0, angle, BulletRadius)
        EXCEPT !.geometry = <<[x |-> x, y |-> y]>>]

\* Bullet constructor: velocity along the firing angle, screen y pointing down
Bullet(objs, id, x, y, angle) ==
    [GameWorldObject(objs, "Bullet", id, x, y,
                     Cos90(angle) * BulletMaxVelocity,
                     -Sin90(angle) * BulletMaxVelocity,
                     angle, BulletRadius)
        EXCEPT !.geometry = <<[x |-> x, y |-> y]>>]

\* velocity -= velocity * friction (0.008): exact for the resting ship
Friction(v) == v - (v * 8) \div 1000

\* ---------------------------------------------------------------- Asteroid

\* variant: Math.ceil where the constructor has Math.floor
AsteroidRadiusCeil(nominal, p) ==
    LET minRadius == (nominal * 3) \div 4
    IN ((p * (nominal - minRadius) + 99) \div 100) + minRadius

\* the scalar radius the Asteroid constructor leaves behind: the radius of
\* the last outline vertex, floor(random * (max - min)) + min with
\* min = 3/4 of the nominal radius and random = p / 100
AsteroidRadiusOf(nominal, p) ==
    LET minRadius == (nominal * 3) \div 4
    IN ((p * (nominal - minRadius)) \div 100) + minRadius

\* the last vertex the constructor pushes: angleFinal is 333 degrees or a
\* little more, so sin and -cos are about -0.45 and -0.89 (whole pixels)
LastVertex(x, y, radius) ==
    [x |-> x - (radius * 45) \div 100, y |-> y - (radius * 89) \div 100]

\* Asteroid constructor; seed holds the Math.random() results.  Of the 20
\* outline vertices the last one is kept.
Asteroid(objs, id, x, y, nominal, seed) ==
    [GameWorldObject(objs, "Asteroid", id, x, y, seed.vx, seed.vy, 0, nominal)
        EXCEPT !.radius = AsteroidRadiusOf(nominal, seed.p),
               !.rotation = seed.rotation,
               !.nominal = nominal,
               !.geometry = <<LastVertex(x, y, AsteroidRadiusOf(nominal, seed.p))>>]

\* variant: the first comparison is with SMALL, so a MEDIUM asteroid
\* has MEDIUM children
ChildNominalFromSmall(radius) ==
    IF radius >= RadiusSmall THEN RadiusMedium ELSE 0

\* the radius the children of an exploding asteroid are constructed with
\* (0: no children), by the comparisons of Asteroid.prototype.explode
ChildNominal(radius) ==
    IF radius >= RadiusMedium THEN RadiusMedium
    ELSE IF radius >= RadiusSmall THEN RadiusSmall
    ELSE 0

\* the three pushes of one branch of explode: children 1..n of rnd
RECURSIVE PushChildren(_, _, _, _, _, _)
PushChildren(objs, a, nominal, rnd, n, used) ==
    IF n = 0 THEN objs
    ELSE LET before == PushChildren(objs, a, nominal, rnd, n - 1, used)
             id == FreshId(used \cup Ids(before))
         IN Append(before, Asteroid(before, id, a.x, a.y, nominal, rnd[n]))

\* variant: each branch of explode pushes two children
ExplodeTwoChildren(objs, a, rnd, used) ==
    LET nominal == ChildNominal(a.radius)
        grown == IF nominal = 0 THEN objs
                 ELSE PushChildren(objs, a, nominal, rnd, 2, used)
    IN Destroy(grown, a.gameWorldIndex)

\* Asteroid.prototype.explode on the asteroid object a
Explode(objs, a, rnd, used) ==
    LET nominal == ChildNominal(a.radius)
        grown == IF nominal = 0 THEN objs
                 ELSE PushChildren(objs, a, nominal, rnd, 3, used)
    IN Destroy(grown, a.gameWorldIndex)

\* the points Bullet.prototype.update awards for the asteroid it hit
PointsFor(radius) ==
    IF radius > RadiusMedium THEN ScoreLarge
    ELSE IF radius > RadiusSmall THEN ScoreMedium
    ELSE ScoreSmall

\* the stored index of the object id: read from the registry while the
\* object is in it, otherwise the value it had when it left
IndexOf(objs, id, old) ==
    IF \E k \in 1..Len(objs) : objs[k].id = id
      THEN objs[CHOOSE k \in 1..Len(objs) : objs[k].id = id].gameWorldIndex
      ELSE old

\* ------------------------------------------------------ the update methods

\* the placeholder for "no object" in the update log
NoEntity == GameWorldObject(<<>>, "none", 0, 0, 0, 0, 0, 0, 0)

\* Ship.prototype.update on the object in slot s: the registry afterwards
\* and whether setGameState(GAME_OVER_SCENE) was called
ShipUpdate(objs, s) ==
    LET moved == Advance(objs[s + 1])
        ship == [moved EXCEPT !.vx = Friction(moved.vx), !.vy = Friction(moved.vy)]
        after == [objs EXCEPT ![s + 1] = ship]
    IN [objs |-> after, collision |-> FirstCollision(after, ship) >= 0]

\* Asteroid.prototype.update on the object in slot s
AsteroidUpdate(objs, s) ==
    LET moved == Advance(objs[s + 1])
    IN [objs EXCEPT ![s + 1] = Rotate(moved, moved.rotation)]

\* variant: the bullet is spent after its second wrap
ExpiredAfterTwo(bullet) == bullet.timesWarped >= 2

\* the expiry rule at the end of Bullet.prototype.update
Expired(bullet) == bullet.timesWarped >= 1

\* Bullet.prototype.update on the object in slot s; rnd holds the random
\* results of the children's constructors, used the ids of this tick.
\* Result: the registry afterwards, the points awarded, and what happened
\* (hit: slot of the asteroid hit or -1; pre/post: the registry around the
\* call of explode()). The history field updates counts the calls.
BulletUpdate(objs, s, rnd, used) ==
    LET bullet == [Advance(objs[s + 1]) EXCEPT !.updates = objs[s + 1].updates + 1]
        moved == [objs EXCEPT ![s + 1] = bullet]
        hit == FirstCollision(moved, bullet)
        asteroid == moved[hit + 1]
        exploded == IF hit >= 0 THEN Explode(moved, asteroid, rnd, used) ELSE moved
        idx1 == IndexOf(exploded, bullet.id, bullet.gameWorldIndex)
        first == IF hit >= 0 THEN Destroy(exploded, idx1) ELSE exploded
        idx2 == IndexOf(first, bullet.id, idx1)
        second == IF Expired(bullet) THEN Destroy(first, idx2) ELSE first
    IN [objs |-> second,
        points |-> IF hit >= 0 THEN PointsFor(asteroid.radius) ELSE 0,
        hit |-> hit,
        target |-> IF hit >= 0 THEN asteroid ELSE NoEntity,
        bullet |-> bullet,
        pre |-> moved,
        post |-> exploded]

\* isWinConditionMet: the scan from slot s on
RECURSIVE WinScan(_, _)
WinScan(objs, s) ==
    IF s >= Len(objs) THEN TRUE
    ELSE IF IsAsteroid(objs[s + 1]) THEN FALSE
    ELSE WinScan(objs, s + 1)

\* variant: the scan returns after looking at the first object
WinFirstOnly(objs) == Len(objs) = 0 \/ ~IsAsteroid(objs[1])

isWinConditionMet(objs) == WinScan(objs, 0)

\* ------------------------------------------------------------ random inputs

\* Math.random() results of one Asteroid constructor call and of the two
\* velocity draws before it: p is the last radius draw in percent,
\* vx, vy the velocity (|v| <= max velocity / 2), rotation the spin
Still(p) == [vx |-> 0, vy |-> 0, p |-> p, rotation |-> 0]

\* generateAsteroids: the random numbers drawn for one LARGE asteroid.  The
\* first count candidate positions are (nx, ny), every later one is (x, y);
\* seed holds the velocity and the shape.  The canvas is smaller than
\* 4 * LARGE, so every candidate is rejected and the 100th rejected
\* candidate is placed: any position of the canvas can result.
Above == [x |-> 20, y |-> 8, count |-> 0, nx |-> 0, ny |-> 0, seed |-> Still(0)]
Below == [x |-> 20, y |-> 152, count |-> 0, nx |-> 0, ny |-> 0, seed |-> Still(0)]
Corner == [x |-> 0, y |-> 0, count |-> 0, nx |-> 0, ny |-> 0,
           seed |-> [vx |-> -1, vy |-> -1, p |-> 99, rotation |-> -4]]

\* the placements of the asteroids of a level, in the order of creation
Placements(level) ==
    IF level = 1 THEN {<<Above>>, <<Below>>, <<Corner>>}
    ELSE {[k \in 1..level |-> Above],
          [k \in 1..level |-> IF k = 1 THEN Corner ELSE Above]}

\* a SMALL child drifting down the screen at 3 pixels per tick
Down(p) == [vx |-> 0, vy |-> 3, p |-> p, rotation |-> 0]

\* explode: the seeds of the three children, for MEDIUM and SMALL children.
\* SMALL children drift in level 1 and rest in the later levels.
ChildSeeds(nominal, level) ==
    IF nominal = RadiusMedium THEN {<<Still(0), Still(99), Still(0)>>}
    ELSE IF level = 1 THEN {<<Down(0), Down(0), Down(0)>>}
    ELSE {<<Still(0), Still(99), Still(0)>>}

\* milliseconds between the Ship constructor and the first handleUserInput
StartElapsed == {0, 1}

\* ------------------------------------------------------------------- state

VARIABLES
    gameWorldObjects,   \* the registry
    gameState,          \* the scene state
    currentLevel,
    score,
    sinceFired,         \* Date.now() - ship.lastFired, capped above fireRate
    pendingFrames,      \* requestAnimationFrame callbacks not yet run
    overlay,            \* which scene nodes are displayed
    pc,                 \* "idle", or "update" inside updateGameWorld's loop
    i,                  \* the loop variable of updateGameWorld
    updated,            \* history: ids update() was called on in this tick
    startIds,           \* history: ids in the registry when the loop began
    lastUpdate,         \* history: what the last update() call did
    raised,             \* the error the last keydown handler threw, or "none"
    startScore,         \* history: the score when startGame last ran
    hits,               \* history: bullet hits per nominal tier since reset
    collided,           \* history: Ship.update set GAME_OVER in this tick
    turns,              \* history: ticks of this level with a rotation key held
    resetFrom,          \* history: the state the last resetGame started from
    leftPlaying,        \* history: the scene a tick left MAIN_LEVEL for, until
                        \* the next frame callback has run
    lastOp              \* history: the handler that ran last

vars == <<gameWorldObjects, gameState, currentLevel, score, sinceFired,
          pendingFrames, overlay, pc, i, updated, startIds, lastUpdate,
          hits, collided, turns, resetFrom, leftPlaying, raised, startScore,
          lastOp>>

FireCap == FireRateMs + 1

\* kind, id: the object update() was called on; hit: it exploded target;
\* warped: its timesWarped after the base update; pre, post: the registry
\* before and after explode(); before: the registry before update()
\* kind "input": handleUserInput ran with keys held, elapsed ms after
\* lastFired, on the registry before
NoUpdate == [kind |-> "none", id |-> 0, hit |-> FALSE, warped |-> 0,
             target |-> NoEntity, points |-> 0,
             pre |-> <<>>, post |-> <<>>, before |-> <<>>,
             keys |-> {}, elapsed |-> 0]

NoHits == [large |-> 0, medium |-> 0, small |-> 0]

\* ----------------------------------------------------------- scene handlers

\* variant: the loop stops at length 1
ClearAllButOne(objs) == IF Len(objs) = 0 THEN objs ELSE <<objs[Len(objs)]>>

\* while (gameWorldObjects.length > 0) gameWorldObjects[0].destroy();
\* the loop ends only if each destroy() shortens the registry
RECURSIVE ClearRegistry(_)
ClearRegistry(objs) ==
    IF Len(objs) = 0 THEN objs
    ELSE LET rest == Destroy(objs, objs[1].gameWorldIndex)
         IN IF Len(rest) = Len(objs) THEN objs ELSE ClearRegistry(rest)

\* the candidate position drawn after drawn earlier ones
Candidate(stream, drawn) ==
    IF drawn < stream.count THEN [x |-> stream.nx, y |-> stream.ny]
    ELSE [x |-> stream.x, y |-> stream.y]

\* variant: only the object in slot 0 is looked at
TooCloseToFirst(objs, px, py) ==
    /\ Len(objs) > 0
    /\ (px - objs[1].x) * (px - objs[1].x) + (py - objs[1].y) * (py - objs[1].y)
          < (RadiusLarge * 4) * (RadiusLarge * 4)

\* the for (j ...) loop: sqrt(dx^2 + dy^2) < AsteroidRadius.LARGE * 4 for
\* some object of the registry
TooClose(objs, px, py) ==
    \E j \in 1..Len(objs) :
        (px - objs[j].x) * (px - objs[j].x) + (py - objs[j].y) * (py - objs[j].y)
          < (RadiusLarge * 4) * (RadiusLarge * 4)

\* the draws the while loop would accept: draw k is made only after k
\* rejections, and numRetries < 100 allows the draws 0..99
Accepted(objs, stream) ==
    {k \in 0..(RetryCap - 1) :
        ~TooClose(objs, Candidate(stream, k).x, Candidate(stream, k).y)}

\* while (placementTooClose && numRetries < 100): every draw is either
\* accepted, which ends the loop, or counted in numRetries.  The loop ends
\* at the first accepted draw k with numRetries = k, or after 100 rejected
\* draws with the last of them in px, py
Place(objs, stream) ==
    LET accepted == Accepted(objs, stream)
        k == IF accepted = {} THEN RetryCap - 1
             ELSE CHOOSE a \in accepted : \A b \in accepted : a <= b
    IN [x |-> Candidate(stream, k).x, y |-> Candidate(stream, k).y,
        numRetries |-> IF accepted = {} THEN RetryCap ELSE k]

\* one pass of the for (i ...) loop: the while loop, then the push of the
\* new Asteroid at px, py
PlaceOne(before, stream) ==
    LET at == Place(before, stream)
    IN Append(before, Asteroid(before, FreshId(Ids(before)), at.x, at.y,
                               RadiusLarge, stream.seed))

\* the for (i ...) loop of generateAsteroids with the draws in places; each
\* pass works on the registry the passes before it left
RECURSIVE PlaceAsteroids(_, _, _)
PlaceAsteroids(objs, places, n) ==
    IF n = 0 THEN objs
    ELSE CHOOSE after \in {PlaceOne(before, places[n]) :
                              before \in {PlaceAsteroids(objs, places, n - 1)}} :
            TRUE

\* if (!numAsteroids) numAsteroids = 5
NumAsteroids(n) == IF n = 0 THEN DefaultAsteroids ELSE n

\* generateAsteroids(n) with the draws in places
GenerateAsteroids(objs, places, n) == PlaceAsteroids(objs, places, NumAsteroids(n))

\* variant: the registry is not cleared before the ship is created
InitializeWithoutClearing(objs, places, level) ==
    LET ship == Ship(objs, FreshId(Ids(objs)),
                     CanvasWidth \div 2, CanvasHeight \div 2)
    IN GenerateAsteroids(Append(objs, ship), places, level)

\* initializeGameWorldObjects
InitializeGameWorldObjects(objs, places, level) ==
    LET cleared == ClearRegistry(objs)
        ship == Ship(cleared, FreshId(Ids(cleared)),
                     CanvasWidth \div 2, CanvasHeight \div 2)
    IN GenerateAsteroids(Append(cleared, ship), places, level)

\* variant: the cooldown test is >= instead of >
FireAtOrAfter(objs, elapsed) ==
    IF elapsed >= FireRateMs
      THEN [objs |-> Append(objs, Bullet(objs, FreshId(Ids(objs)),
                                         objs[1].x, objs[1].y, objs[1].angle)),
            sinceFired |-> 0]
      ELSE [objs |-> objs, sinceFired |-> elapsed]

\* Ship.prototype.fire on the ship in slot 0, elapsed ms after lastFired
Fire(objs, elapsed) ==
    IF elapsed > FireRateMs
      THEN [objs |-> Append(objs, Bullet(objs, FreshId(Ids(objs)),
                                         objs[1].x, objs[1].y, objs[1].angle)),
            sinceFired |-> 0]
      ELSE [objs |-> objs, sinceFired |-> elapsed]

\* handleUserInput(delta / 1000): rotationSpeed 5 * delta * 100 = dt / 2 degrees
HandleUserInput(objs, keys, dt, elapsed) ==
    LET turned == IF 37 \in keys THEN [objs EXCEPT ![1] = Rotate(objs[1], dt \div 2)]
                  ELSE IF 39 \in keys THEN [objs EXCEPT ![1] = Rotate(objs[1], -(dt \div 2))]
                  ELSE objs
    IN IF 32 \in keys THEN Fire(turned, elapsed)
       ELSE [objs |-> turned, sinceFired |-> elapsed]

Turning(keys) == 37 \in keys \/ 39 \in keys

\* the keys offered to a tick: the fire key only below MaxBullets bullets,
\* a rotation key only below MaxTurns turns
Offered(objs, keys, elapsed, turned) ==
    /\ (32 \in keys /\ elapsed > FireRateMs) => NumOf(objs, "Bullet") < MaxBullets
    /\ Turning(keys) => turned < MaxTurns

NoReset == [gameState |-> "none", score |-> 0, currentLevel |-> 0, length |-> 0]

\* the part of updateGameWorld before the first update(): handleUserInput,
\* then the loop starts at i = 0
BeginTick(objs, keys, dt, elapsed, op) ==
    LET input == HandleUserInput(objs, keys, dt, elapsed)
    IN /\ gameWorldObjects' = Renumber(input.objs)
       /\ sinceFired' = input.sinceFired
       /\ pc' = "update"
       /\ i' = 0
       /\ updated' = <<>>
       /\ startIds' = 0..(Len(input.objs) - 1)
       /\ lastUpdate' = [NoUpdate EXCEPT !.kind = "input", !.before = objs,
                                         !.keys = keys, !.elapsed = elapsed]
       /\ collided' = FALSE
       /\ lastOp' = op

Init ==
    /\ gameWorldObjects = <<>>
    /\ gameState = TITLE_SCREEN_SCENE
    /\ currentLevel = 1
    /\ score = 0
    /\ sinceFired = 0
    /\ pendingFrames = 0
    /\ overlay = [title |-> TRUE, levelReady |-> FALSE, gameOver |-> FALSE]
    /\ pc = "idle"
    /\ i = 0
    /\ updated = <<>>
    /\ startIds = {}
    /\ lastUpdate = NoUpdate
    /\ hits = NoHits
    /\ collided = FALSE
    /\ turns = 0
    /\ resetFrom = NoReset
    /\ leftPlaying = "none"
    /\ lastOp = "initialize"
    /\ raised = "none"
    /\ startScore = 0

\* startGame, up to the first update() of the tick it runs synchronously
StartGame(level, op) ==
    /\ pendingFrames < MaxPending
    /\ \E places \in Placements(level) :
         \E objs \in {InitializeGameWorldObjects(gameWorldObjects, places, level)},
            keys \in KeySets, dt \in StartDeltaMs, e \in StartElapsed :
             /\ Offered(objs, keys, FireRateMs + e, 0)
             /\ BeginTick(objs, keys, dt, FireRateMs + e, op)
             /\ turns' = IF Turning(keys) THEN 1 ELSE 0
    /\ gameState' = MAIN_LEVEL_SCENE
    /\ currentLevel' = level
    /\ overlay' = [overlay EXCEPT !.title = FALSE, !.levelReady = FALSE]
    /\ resetFrom' = NoReset
    /\ UNCHANGED <<score, pendingFrames, hits, leftPlaying>>
    /\ raised' = "none"
    /\ startScore' = score

\* keydown Enter in TITLE_SCREEN_SCENE
KeyEnterTitle ==
    /\ pc = "idle"
    /\ gameState = TITLE_SCREEN_SCENE
    /\ StartGame(currentLevel, "startGame")

\* variant: playNextLevel without currentLevel++
KeyEnterWinSameLevel ==
    /\ pc = "idle"
    /\ gameState = WIN_LEVEL_SCENE
    /\ currentLevel < MaxLevel
    /\ StartGame(currentLevel, "playNextLevel")

\* keydown Enter in WIN_LEVEL_SCENE: playNextLevel
KeyEnterWin ==
    /\ pc = "idle"
    /\ gameState = WIN_LEVEL_SCENE
    /\ currentLevel < MaxLevel
    /\ StartGame(currentLevel + 1, "playNextLevel")

\* resetGame
ResetGame ==
    /\ gameWorldObjects' = ClearRegistry(gameWorldObjects)
    /\ overlay' = [title |-> TRUE, levelReady |-> FALSE, gameOver |-> FALSE]
    /\ currentLevel' = 1
    /\ score' = 0
    /\ gameState' = TITLE_SCREEN_SCENE
    /\ hits' = NoHits
    /\ resetFrom' = [gameState |-> gameState, score |-> score,
                     currentLevel |-> currentLevel,
                     length |-> Len(gameWorldObjects)]
    /\ lastOp' = "resetGame"
    /\ UNCHANGED <<sinceFired, pendingFrames, pc, i, updated, startIds,
                   lastUpdate, collided, turns, leftPlaying>>
    /\ raised' = "none"
    /\ startScore' = 0

\* keydown Enter in GAME_OVER_SCENE or CREDITS_SCENE
KeyEnterReset ==
    /\ pc = "idle"
    /\ gameState \in {GAME_OVER_SCENE, CREDITS_SCENE}
    /\ ResetGame

\* keydown R in any scene
KeyR ==
    /\ pc = "idle"
    /\ ResetGame

\* keydown P in any scene: pauseGame() is called, and no pauseGame is
\* declared in the program, so the call ends the handler with a
\* ReferenceError
KeyP ==
    /\ pc = "idle"
    /\ raised' = "ReferenceError"
    /\ lastOp' = "pauseGame"
    /\ UNCHANGED <<gameWorldObjects, gameState, currentLevel, score, sinceFired,
                   pendingFrames, overlay, pc, i, updated, startIds, lastUpdate,
                   hits, collided, turns, resetFrom, leftPlaying>>
    /\ UNCHANGED startScore

\* keydown F in any scene (toggleFullScreen changes the document only), or
\* keydown Enter in MAIN_LEVEL_SCENE (the case is empty)
KeyInert ==
    /\ pc = "idle"
    /\ raised' = "none"
    /\ lastOp' = "keydown"
    /\ UNCHANGED <<gameWorldObjects, gameState, currentLevel, score, sinceFired,
                   pendingFrames, overlay, pc, i, updated, startIds, lastUpdate,
                   hits, collided, turns, resetFrom, leftPlaying>>
    /\ UNCHANGED startScore

\* ------------------------------------------------- the frame callback chain

\* a pending playMainLevelScene callback runs in MAIN_LEVEL_SCENE: the tick
\* begins (its requestAnimationFrame call is at the end of the tick)
FrameTick ==
    /\ pc = "idle"
    /\ pendingFrames > 0
    /\ gameState = MAIN_LEVEL_SCENE
    /\ pendingFrames' = pendingFrames - 1
    /\ \E keys \in KeySets, dt \in DeltaMs :
         LET elapsed == Min(sinceFired + dt, FireCap)
         IN /\ Offered(gameWorldObjects, keys, elapsed, turns)
            /\ BeginTick(gameWorldObjects, keys, dt, elapsed, "frame")
            /\ turns' = IF Turning(keys) THEN turns + 1 ELSE turns
    /\ UNCHANGED <<gameState, currentLevel, score, overlay, hits, resetFrom>>
    /\ leftPlaying' = "none"
    /\ raised' = "none"
    /\ UNCHANGED startScore

\* variant: the callback for GAME_OVER_SCENE schedules itself again
FrameGameOverAgain ==
    /\ pc = "idle"
    /\ pendingFrames > 0
    /\ gameState = GAME_OVER_SCENE
    /\ overlay' = [overlay EXCEPT !.gameOver = TRUE]
    /\ lastOp' = "playGameOverScene"
    /\ raised' = "none"
    /\ leftPlaying' = "none"
    /\ UNCHANGED <<gameWorldObjects, gameState, currentLevel, score, sinceFired,
                   pendingFrames, pc, i, updated, startIds, lastUpdate, hits,
                   collided, turns, resetFrom>>
    /\ UNCHANGED startScore

\* the callback runs in GAME_OVER_SCENE: playGameOverScene, no rescheduling
FrameGameOver ==
    /\ pc = "idle"
    /\ pendingFrames > 0
    /\ gameState = GAME_OVER_SCENE
    /\ pendingFrames' = pendingFrames - 1
    /\ overlay' = [overlay EXCEPT !.gameOver = TRUE]
    /\ lastOp' = "playGameOverScene"
    /\ UNCHANGED <<gameWorldObjects, gameState, currentLevel, score, sinceFired,
                   pc, i, updated, startIds, lastUpdate, hits, collided,
                   turns, resetFrom>>
    /\ leftPlaying' = "none"
    /\ raised' = "none"
    /\ UNCHANGED startScore

\* the callback runs in WIN_LEVEL_SCENE: playLevelReadyScene, no rescheduling
FrameLevelWon ==
    /\ pc = "idle"
    /\ pendingFrames > 0
    /\ gameState = WIN_LEVEL_SCENE
    /\ pendingFrames' = pendingFrames - 1
    /\ overlay' = [overlay EXCEPT !.levelReady = TRUE]
    /\ lastOp' = "playLevelReadyScene"
    /\ UNCHANGED <<gameWorldObjects, gameState, currentLevel, score, sinceFired,
                   pc, i, updated, startIds, lastUpdate, hits, collided,
                   turns, resetFrom>>
    /\ leftPlaying' = "none"
    /\ raised' = "none"
    /\ UNCHANGED startScore

\* the callback runs in any other scene: no branch is taken
FrameOther ==
    /\ pc = "idle"
    /\ pendingFrames > 0
    /\ gameState \in {TITLE_SCREEN_SCENE, CREDITS_SCENE}
    /\ pendingFrames' = pendingFrames - 1
    /\ lastOp' = "playMainLevelScene"
    /\ UNCHANGED <<gameWorldObjects, gameState, currentLevel, score, sinceFired,
                   overlay, pc, i, updated, startIds, lastUpdate, hits, collided,
                   turns, resetFrom>>
    /\ leftPlaying' = "none"
    /\ raised' = "none"
    /\ UNCHANGED startScore

\* ------------------------------------------- updateGameWorld, one iteration

Current == gameWorldObjects[i + 1]

\* the history of one update() call
Log(kind, id) == [NoUpdate EXCEPT !.kind = kind, !.id = id,
                                  !.before = gameWorldObjects]

\* gameWorldObjects[i].update() for a Ship
UpdateShip ==
    /\ pc = "update"
    /\ i < Len(gameWorldObjects)
    /\ Current.kind = "Ship"
    /\ LET r == ShipUpdate(gameWorldObjects, i)
       IN /\ gameWorldObjects' = r.objs
          /\ gameState' = IF r.collision THEN GAME_OVER_SCENE ELSE gameState
          /\ collided' = (collided \/ r.collision)
    /\ i' = i + 1
    /\ updated' = Append(updated, Current.id)
    /\ lastUpdate' = Log("Ship", Current.id)
    /\ lastOp' = "update"
    /\ UNCHANGED <<currentLevel, score, sinceFired, pendingFrames, overlay, pc,
                   startIds, hits, turns, resetFrom, leftPlaying>>
    /\ raised' = "none"
    /\ UNCHANGED startScore

\* gameWorldObjects[i].update() for an Asteroid
UpdateAsteroid ==
    /\ pc = "update"
    /\ i < Len(gameWorldObjects)
    /\ Current.kind = "Asteroid"
    /\ gameWorldObjects' = AsteroidUpdate(gameWorldObjects, i)
    /\ i' = i + 1
    /\ updated' = Append(updated, Current.id)
    /\ lastUpdate' = Log("Asteroid", Current.id)
    /\ lastOp' = "update"
    /\ UNCHANGED <<gameState, currentLevel, score, sinceFired, pendingFrames,
                   overlay, pc, startIds, hits, collided, turns, resetFrom, leftPlaying>>
    /\ raised' = "none"
    /\ UNCHANGED startScore

\* variant: assignment where addToScore has +=
AddToScoreAssign(old, points) == points

\* variant: -= where addToScore has +=
AddToScoreSubtract(old, points) == old - points

\* addToScore
AddToScore(old, points) == old + points

\* the history counter of the tier an asteroid was constructed with
CountHit(h, nominal) ==
    IF nominal = RadiusLarge THEN [h EXCEPT !.large = h.large + 1]
    ELSE IF nominal = RadiusMedium THEN [h EXCEPT !.medium = h.medium + 1]
    ELSE [h EXCEPT !.small = h.small + 1]

\* gameWorldObjects[i].update() for a Bullet
UpdateBullet ==
    /\ pc = "update"
    /\ i < Len(gameWorldObjects)
    /\ Current.kind = "Bullet"
    /\ LET moved == [gameWorldObjects EXCEPT ![i + 1] = Advance(Current)]
           aim == FirstCollision(moved, moved[i + 1])
           nominal == IF aim >= 0 THEN ChildNominal(moved[aim + 1].radius) ELSE 0
       IN \E rnd \in ChildSeeds(nominal, currentLevel) :
            LET r == BulletUpdate(gameWorldObjects, i, rnd,
                                  startIds \cup Ids(gameWorldObjects))
            IN /\ gameWorldObjects' = r.objs
               /\ score' = IF r.hit >= 0 THEN AddToScore(score, r.points) ELSE score
               /\ hits' = IF r.hit >= 0 THEN CountHit(hits, r.target.nominal) ELSE hits
               /\ lastUpdate' = [kind |-> "Bullet", id |-> Current.id,
                                 hit |-> r.hit >= 0,
                                 warped |-> r.bullet.timesWarped,
                                 target |-> r.target,
                                 points |-> r.points,
                                 pre |-> r.pre, post |-> r.post,
                                 before |-> gameWorldObjects,
                                 keys |-> {}, elapsed |-> 0]
    /\ i' = i + 1
    /\ updated' = Append(updated, Current.id)
    /\ lastOp' = "update"
    /\ UNCHANGED <<gameState, currentLevel, sinceFired, pendingFrames, overlay,
                   pc, startIds, collided, turns, resetFrom, leftPlaying>>
    /\ raised' = "none"
    /\ UNCHANGED startScore

\* the end of the tick: the win check of updateGameWorld, then
\* renderGameWorld and requestAnimationFrame(playMainLevelScene)
EndTick ==
    /\ pc = "update"
    /\ i >= Len(gameWorldObjects)
    /\ gameState' = IF isWinConditionMet(gameWorldObjects)
                      THEN WIN_LEVEL_SCENE ELSE gameState
    /\ pendingFrames' = pendingFrames + 1
    /\ pc' = "idle"
    /\ i' = 0
    /\ gameWorldObjects' = Renumber(gameWorldObjects)
    /\ updated' = <<>>
    /\ startIds' = {}
    /\ lastUpdate' = NoUpdate
    /\ lastOp' = "endTick"
    /\ UNCHANGED <<currentLevel, score, sinceFired, overlay, hits, collided,
                   turns, resetFrom>>
    /\ leftPlaying' = IF isWinConditionMet(gameWorldObjects) THEN WIN_LEVEL_SCENE
                      ELSE IF gameState # MAIN_LEVEL_SCENE THEN gameState
                      ELSE leftPlaying
    /\ raised' = "none"
    /\ UNCHANGED startScore

Next ==
    \/ KeyEnterTitle
    \/ KeyEnterWin
    \/ KeyEnterReset
    \/ KeyR
    \/ KeyP
    \/ KeyInert
    \/ FrameTick
    \/ FrameGameOver
    \/ FrameLevelWon
    \/ FrameOther
    \/ UpdateShip
    \/ UpdateAsteroid
    \/ UpdateBullet
    \/ EndTick

Spec == Init /\ [][Next]_vars

\* ------------------------------------------------- the win check on its own

\* every registry of at most MaxRegistry ships, bullets and asteroids
Registries ==
    LET kinds == UNION {[1..n -> {"Ship", "Bullet", "Asteroid"}] : n \in 0..MaxRegistry}
    IN {[k \in 1..Len(ks) |->
            [GameWorldObject(<<>>, ks[k], k - 1, 0, 0, 0, 0, 0, 0)
                EXCEPT !.gameWorldIndex = k - 1]] : ks \in kinds}

InitWin ==
    /\ gameWorldObjects \in Registries
    /\ gameState = MAIN_LEVEL_SCENE
    /\ currentLevel = 1
    /\ score = 0
    /\ sinceFired = 0
    /\ pendingFrames = 0
    /\ overlay = [title |-> FALSE, levelReady |-> FALSE, gameOver |-> FALSE]
    /\ pc = "idle"
    /\ i = 0
    /\ updated = <<>>
    /\ startIds = {}
    /\ lastUpdate = NoUpdate
    /\ hits = NoHits
    /\ collided = FALSE
    /\ turns = 0
    /\ resetFrom = NoReset
    /\ leftPlaying = "none"
    /\ lastOp = "initialize"
    /\ raised = "none"
    /\ startScore = 0

\* the tail of updateGameWorld: if (isWinConditionMet()) setGameState(WIN)
WinCheck ==
    /\ lastOp = "initialize"
    /\ gameState' = IF isWinConditionMet(gameWorldObjects)
                       THEN WIN_LEVEL_SCENE ELSE gameState
    /\ lastOp' = "winCheck"
    /\ UNCHANGED <<gameWorldObjects, currentLevel, score, sinceFired,
                   pendingFrames, overlay, pc, i, updated, startIds, lastUpdate,
                   hits, collided, turns, resetFrom, leftPlaying>>
    /\ raised' = "none"
    /\ UNCHANGED startScore

NextWin == WinCheck

SpecWin == InitWin /\ [][NextWin]_vars

\* ------------------------------------------------ the base update on its own

\* positions inside the playfield and velocities shorter than the edge
AdvanceInputs ==
    LET xs == {0, 1, CanvasWidth \div 2, CanvasWidth - 1}
        ys == {0, 1, CanvasHeight \div 2, CanvasHeight - 1}
        vxs == {-(CanvasWidth - 1), -1, 0, 1, CanvasWidth - 1}
        vys == {-(CanvasHeight - 1), -1, 0, 1, CanvasHeight - 1}
    IN {[Ship(<<>>, 0, x, y) EXCEPT !.vx = vx, !.vy = vy] :
            x \in xs, y \in ys, vx \in vxs, vy \in vys}

InitAdvance ==
    /\ gameWorldObjects \in {<<o>> : o \in AdvanceInputs}
    /\ gameState = MAIN_LEVEL_SCENE
    /\ currentLevel = 1
    /\ score = 0
    /\ sinceFired = 0
    /\ pendingFrames = 0
    /\ overlay = [title |-> FALSE, levelReady |-> FALSE, gameOver |-> FALSE]
    /\ pc = "idle"
    /\ i = 0
    /\ updated = <<>>
    /\ startIds = {}
    /\ lastUpdate = NoUpdate
    /\ hits = NoHits
    /\ collided = FALSE
    /\ turns = 0
    /\ resetFrom = NoReset
    /\ leftPlaying = "none"
    /\ lastOp = "initialize"
    /\ raised = "none"
    /\ startScore = 0

\* GameWorldObject.prototype.update called on the object
AdvanceStep ==
    /\ lastOp = "initialize"
    /\ gameWorldObjects' = <<Advance(gameWorldObjects[1])>>
    /\ lastUpdate' = [NoUpdate EXCEPT !.kind = "advance",
                                      !.before = gameWorldObjects]
    /\ lastOp' = "advance"
    /\ UNCHANGED <<gameState, currentLevel, score, sinceFired, pendingFrames,
                   overlay, pc, i, updated, startIds, hits, collided, turns,
                   resetFrom, leftPlaying>>
    /\ raised' = "none"
    /\ UNCHANGED startScore

NextAdvance == AdvanceStep

SpecAdvance == InitAdvance /\ [][NextAdvance]_vars

\* ------------------------------------------- setPosition and setAngle alone

\* a JavaScript value that is no object: its typeof tag and, for a number,
\* its value
Plain(t, v) == [t |-> t, v |-> v]

JsUndefined == Plain("undefined", 0)

\* a JavaScript argument: tag, number value, and the properties x and y that
\* reading them yields (undefined for everything but an object that has them)
JsValue(t, v, x, y) == [t |-> t, v |-> v, x |-> x, y |-> y]

JsValues ==
    {JsValue("undefined", 0, JsUndefined, JsUndefined),
     JsValue("null", 0, JsUndefined, JsUndefined),
     JsValue("string", 0, JsUndefined, JsUndefined),
     JsValue("number", 5, JsUndefined, JsUndefined),
     JsValue("number", -3, JsUndefined, JsUndefined)}
    \cup {JsValue("object", 0, x, y) :
            x \in {JsUndefined, Plain("string", 0), Plain("number", 7)},
            y \in {JsUndefined, Plain("string", 0), Plain("number", 9)}}

\* typeof: null answers "object"
TypeOf(a) == IF a.t = "null" THEN "object" ELSE a.t

\* GameWorldObject.prototype.setPosition(x, y) on the position object
\* position; raised: reading x.x threw a TypeError (x is null)
SetPosition(position, x, y) ==
    IF TypeOf(x) = "object" /\ y.t \in {"undefined", "null"}
      THEN IF x.t = "null"
             THEN [raised |-> TRUE, position |-> position]
             ELSE [raised |-> FALSE, position |-> [x |-> x.x, y |-> x.y]]
    ELSE IF TypeOf(x) = "number" /\ TypeOf(y) = "number"
      THEN [raised |-> FALSE,
            position |-> [x |-> Plain("number", x.v), y |-> Plain("number", y.v)]]
    ELSE [raised |-> FALSE, position |-> position]

\* GameWorldObject.prototype.setAngle(angle)
SetAngle(angle, a) ==
    IF a.t # "null" /\ TypeOf(a) = "number" THEN Plain("number", a.v) ELSE angle

\* an object as the constructors leave it: numeric position and angle
SetterInputs ==
    {[position |-> [x |-> Plain("number", x), y |-> Plain("number", y)],
      angle |-> Plain("number", a)] :
        x \in {0, CanvasWidth \div 2}, y \in {CanvasHeight \div 2}, a \in {0, 90}}

\* lastUpdate holds the object (position, angle), the call made on it (kind,
\* args), whether it threw, and the object before the call (old)
InitSetters ==
    /\ lastUpdate \in {[kind |-> "object", position |-> o.position,
                         angle |-> o.angle, raised |-> FALSE, args |-> <<>>,
                         old |-> o] : o \in SetterInputs}
    /\ gameWorldObjects = <<>>
    /\ gameState = TITLE_SCREEN_SCENE
    /\ currentLevel = 1
    /\ score = 0
    /\ sinceFired = 0
    /\ pendingFrames = 0
    /\ overlay = [title |-> TRUE, levelReady |-> FALSE, gameOver |-> FALSE]
    /\ pc = "idle"
    /\ i = 0
    /\ updated = <<>>
    /\ startIds = {}
    /\ hits = NoHits
    /\ collided = FALSE
    /\ turns = 0
    /\ resetFrom = NoReset
    /\ leftPlaying = "none"
    /\ lastOp = "initialize"
    /\ raised = "none"
    /\ startScore = 0

SetPositionCall ==
    /\ lastUpdate.kind = "object"
    /\ \E x \in JsValues, y \in JsValues :
         LET r == SetPosition(lastUpdate.position, x, y)
         IN lastUpdate' = [lastUpdate EXCEPT !.kind = "setPosition",
                                             !.position = r.position,
                                             !.raised = r.raised,
                                             !.args = <<x, y>>]
    /\ lastOp' = "setPosition"
    /\ UNCHANGED <<gameWorldObjects, gameState, currentLevel, score, sinceFired,
                   pendingFrames, overlay, pc, i, updated, startIds, hits,
                   collided, turns, resetFrom, leftPlaying>>
    /\ raised' = "none"
    /\ UNCHANGED startScore

SetAngleCall ==
    /\ lastUpdate.kind = "object"
    /\ \E a \in JsValues :
         lastUpdate' = [lastUpdate EXCEPT !.kind = "setAngle",
                                          !.angle = SetAngle(lastUpdate.angle, a),
                                          !.args = <<a>>]
    /\ lastOp' = "setAngle"
    /\ UNCHANGED <<gameWorldObjects, gameState, currentLevel, score, sinceFired,
                   pendingFrames, overlay, pc, i, updated, startIds, hits,
                   collided, turns, resetFrom, leftPlaying>>
    /\ raised' = "none"
    /\ UNCHANGED startScore

NextSetters == SetPositionCall \/ SetAngleCall

SpecSetters == InitSetters /\ [][NextSetters]_vars

\* ------------------------------------------------- generateAsteroids alone

\* candidate positions on a 1000 x 800 canvas whose centre is (500, 400):
\* two far from the centre, one exactly 4 * LARGE from it, one a pixel
\* closer, and the centre
FarCandidates == {[x |-> 100, y |-> 100], [x |-> 900, y |-> 700],
                  [x |-> 820, y |-> 400]}
NearCandidates == {[x |-> 819, y |-> 400], [x |-> 500, y |-> 400]}

\* the draws for one asteroid: count candidates near, the later ones far
\* or near
Draws ==
    {[x |-> c.x, y |-> c.y, count |-> n, nx |-> near.x, ny |-> near.y,
      seed |-> Still(0)] :
        c \in FarCandidates \cup {[x |-> 819, y |-> 400]},
        near \in NearCandidates,
        n \in {0, 1, RetryCap - 1, RetryCap}}

\* arguments of generateAsteroids (0: falsy or absent)
GenerateArguments == {0, 1, 2}

\* the draws of a call: any for one or two asteroids, the same for each of
\* the asteroids of the default
DrawsFor(n) ==
    IF n = 0 THEN {[k \in 1..DefaultAsteroids |-> d] : d \in Draws}
    ELSE [1..n -> Draws]

\* the registry before the call: empty, or the ship at the centre
GenerateRegistries == {<<>>, <<Ship(<<>>, 0, 500, 400)>>}

\* lastUpdate holds the call (n, places) and, after it, the registry
\* before it and numRetries of each asteroid at the end of its while loop
InitGenerate ==
    /\ gameWorldObjects \in GenerateRegistries
    /\ \E n \in GenerateArguments :
         lastUpdate \in {[kind |-> "registry", n |-> n, places |-> places,
                          before |-> <<>>, numRetries |-> <<>>] :
                            places \in DrawsFor(n)}
    /\ gameState = TITLE_SCREEN_SCENE
    /\ currentLevel = 1
    /\ score = 0
    /\ sinceFired = 0
    /\ pendingFrames = 0
    /\ overlay = [title |-> TRUE, levelReady |-> FALSE, gameOver |-> FALSE]
    /\ pc = "idle"
    /\ i = 0
    /\ updated = <<>>
    /\ startIds = {}
    /\ hits = NoHits
    /\ collided = FALSE
    /\ turns = 0
    /\ resetFrom = NoReset
    /\ leftPlaying = "none"
    /\ lastOp = "initialize"
    /\ raised = "none"
    /\ startScore = 0

\* generateAsteroids(n) called on the registry
GenerateCall ==
    /\ lastUpdate.kind = "registry"
    /\ \E objs \in {GenerateAsteroids(gameWorldObjects, lastUpdate.places,
                                       lastUpdate.n)} :
         /\ gameWorldObjects' = objs
         /\ lastUpdate' =
              [lastUpdate EXCEPT
                 !.kind = "generateAsteroids",
                 !.before = gameWorldObjects,
                 !.numRetries =
                    [k \in 1..(Len(objs) - Len(gameWorldObjects)) |->
                       Place(SubSeq(objs, 1, Len(gameWorldObjects) + k - 1),
                             lastUpdate.places[k]).numRetries]]
    /\ lastOp' = "generateAsteroids"
    /\ UNCHANGED <<gameState, currentLevel, score, sinceFired, pendingFrames,
                   overlay, pc, i, updated, startIds, hits, collided, turns,
                   resetFrom, leftPlaying>>
    /\ raised' = "none"
    /\ UNCHANGED startScore

NextGenerate == GenerateCall

SpecGenerate == InitGenerate /\ [][NextGenerate]_vars

\* --------------------------------------------------- Bullet.update alone

\* objs with an asteroid pushed, as generateAsteroids and explode() push one
WithAsteroid(objs, x, y, nominal, p) ==
    Append(objs, Asteroid(objs, FreshId(Ids(objs)), x, y, nominal, Still(p)))

\* objs with a bullet pushed that the ship fired from the centre, facing
\* angle, and that has moved to (x, y) since
WithBullet(objs, x, y, angle) ==
    Append(objs, [Bullet(objs, FreshId(Ids(objs)), x, y, angle)
                    EXCEPT !.geometry = <<[x |-> x, y |-> y]>>])

\* the asteroids of a level after some hits: a LARGE one, or the three
\* MEDIUM or SMALL children of one explosion, at the top or bottom edge
AsteroidGroups(objs) ==
    {WithAsteroid(objs, 20, y, RadiusLarge, 0) : y \in {8, 152}}
    \cup {WithAsteroid(WithAsteroid(WithAsteroid(objs, 20, y, n, 0), 20, y, n, 99),
                       20, y, n, 0) :
             y \in {8, 152}, n \in {RadiusMedium, RadiusSmall}}

\* a bullet on its way up or down from the ship at the centre
BulletsInFlight ==
    {[y |-> (CanvasHeight \div 2) - k * BulletMaxVelocity, angle |-> 90] : k \in {2, 6, 7}}
    \cup {[y |-> (CanvasHeight \div 2) + k * BulletMaxVelocity, angle |-> 270] : k \in {2, 6, 7}}

\* the registry when a Bullet is updated: the ship, then the asteroids and
\* the bullet; the bullet comes before the asteroids that were spawned
\* after it was fired
BulletRegistries ==
    LET ship == <<Ship(<<>>, 0, CanvasWidth \div 2, CanvasHeight \div 2)>>
    IN UNION {AsteroidGroups(WithBullet(ship, CanvasWidth \div 2, b.y, b.angle)) :
                b \in BulletsInFlight}
       \cup
       UNION {{WithBullet(g, CanvasWidth \div 2, b.y, b.angle) :
                 g \in AsteroidGroups(ship)} : b \in BulletsInFlight}

\* updateGameWorld's loop has reached the bullet
InitBullet ==
    /\ gameWorldObjects \in BulletRegistries
    /\ i \in 1..4
    /\ i < Len(gameWorldObjects)
    /\ Current.kind = "Bullet"
    /\ updated = [k \in 1..i |-> gameWorldObjects[k].id]
    /\ startIds = Ids(gameWorldObjects)
    /\ gameState = MAIN_LEVEL_SCENE
    /\ currentLevel \in 1..MaxLevel
    /\ score \in {0, ScoreLarge}
    /\ sinceFired = 0
    /\ pendingFrames = 0
    /\ overlay = [title |-> FALSE, levelReady |-> FALSE, gameOver |-> FALSE]
    /\ pc = "update"
    /\ lastUpdate = NoUpdate
    /\ hits = NoHits
    /\ collided = FALSE
    /\ turns = 0
    /\ resetFrom = NoReset
    /\ leftPlaying = "none"
    /\ lastOp = "update"
    /\ raised = "none"
    /\ startScore = 0

NextBullet == UpdateBullet

SpecBullet == InitBullet /\ [][NextBullet]_vars

\* ---------------------------------------------------------------- claims

Count(seq, x) == Cardinality({k \in 1..Len(seq) : seq[k] = x})

\* C1: within a tick, every object that was in the registry when the update
\* loop began and sits in a slot the loop has passed has had update() called
\* on it exactly once (no live object is skipped or updated twice).
C1_LiveEntityUpdatedOnce ==
    pc = "update" =>
        \A k \in 1..Len(gameWorldObjects) :
            (gameWorldObjects[k].id \in startIds /\ k - 1 < i)
                => Count(updated, gameWorldObjects[k].id) = 1

\* C2: an object added to the registry during the update loop of a tick does
\* not have update() called on it within that tick.
C2_SpawnedNotUpdatedInTick ==
    pc = "update" => \A k \in 1..Len(updated) : updated[k] \in startIds

\* C3: once Ship.update has set GAME_OVER in a tick, no other object's
\* update() runs in that tick: the last update() call is the ship's.
C3_CollisionShortCircuits ==
    (pc = "update" /\ collided) => lastUpdate.kind = "Ship"

\* C4: a tick in which Ship.update found a ship-asteroid collision ends in
\* GAME_OVER (never in WIN_LEVEL).
C4_CollisionEndsInGameOver ==
    (lastOp = "endTick" /\ collided) => gameState = GAME_OVER_SCENE

Same(a, b) == [a EXCEPT !.gameWorldIndex = 0] = [b EXCEPT !.gameWorldIndex = 0]

NextTier(nominal) ==
    IF nominal = RadiusLarge THEN RadiusMedium
    ELSE IF nominal = RadiusMedium THEN RadiusSmall
    ELSE 0

Children(pre, post) == {m \in 1..Len(post) : post[m].id \notin Ids(pre)}

\* C6: explode() removes exactly the exploding asteroid and adds 3 children
\* of the next tier at its position (none for a SMALL asteroid); every other
\* registry entry stays.
C6_ExplodeEffect ==
    lastUpdate.hit =>
        LET pre == lastUpdate.pre
            post == lastUpdate.post
            t == lastUpdate.target
        IN /\ t.id \in Ids(pre)
           /\ t.id \notin Ids(post)
           /\ \A k \in 1..Len(pre) :
                pre[k].id # t.id => \E m \in 1..Len(post) : Same(post[m], pre[k])
           /\ Cardinality(Children(pre, post))
                = (IF t.nominal = RadiusSmall THEN 0 ELSE 3)
           /\ Len(post) = Len(pre) - 1 + Cardinality(Children(pre, post))
           /\ \A m \in Children(pre, post) :
                /\ post[m].kind = "Asteroid"
                /\ post[m].nominal = NextTier(t.nominal)
                /\ post[m].x = t.x
                /\ post[m].y = t.y

C6_Witness ==
    /\ lastUpdate.hit
    /\ lastUpdate.target.nominal = RadiusMedium
    /\ lastUpdate.target.radius = 39
    /\ Cardinality(Children(lastUpdate.pre, lastUpdate.post)) = 3
    /\ Len(lastUpdate.pre) > 3

\* C7: the score is the sum of the points of the tiers hit since the reset:
\* 20 per LARGE, 50 per MEDIUM, 100 per SMALL hit.
C7_ScoreIsSumOfTierPoints ==
    score = ScoreLarge * hits.large + ScoreMedium * hits.medium
              + ScoreSmall * hits.small

C7_Witness ==
    /\ hits = [large |-> 1, medium |-> 1, small |-> 1]
    /\ score = 170

\* C8: for every asteroid in the registry the scoring comparison and the
\* split comparison choose the tier it was constructed with.
C8_ScoreTierIsSplitTier ==
    \A k \in 1..Len(gameWorldObjects) :
        LET a == gameWorldObjects[k]
        IN IsAsteroid(a) =>
             /\ PointsFor(a.radius) = ScoreLarge <=> ChildNominal(a.radius) = RadiusMedium
             /\ PointsFor(a.radius) = ScoreMedium <=> ChildNominal(a.radius) = RadiusSmall
             /\ PointsFor(a.radius) = ScoreSmall <=> ChildNominal(a.radius) = 0
             /\ ChildNominal(a.radius) = NextTier(a.nominal)

C8_Witness ==
    /\ \E k \in 1..Len(gameWorldObjects) :
         gameWorldObjects[k].nominal = RadiusMedium /\ gameWorldObjects[k].radius = 39
    /\ \E k \in 1..Len(gameWorldObjects) :
         gameWorldObjects[k].nominal = RadiusSmall /\ gameWorldObjects[k].radius = 19

\* C9: isWinConditionMet() is true exactly when the registry holds no
\* Asteroid, whatever else it holds.
C9_WinIffNoAsteroid ==
    /\ isWinConditionMet(gameWorldObjects) <=> NumOf(gameWorldObjects, "Asteroid") = 0
    /\ lastOp = "winCheck" =>
          (gameState = WIN_LEVEL_SCENE <=> NumOf(gameWorldObjects, "Asteroid") = 0)

C9_Witness ==
    /\ lastOp = "winCheck"
    /\ gameState = WIN_LEVEL_SCENE
    /\ NumOf(gameWorldObjects, "Ship") = 2
    /\ NumOf(gameWorldObjects, "Bullet") = 2

\* C10: resetGame leaves TITLE_SCREEN, score 0, level 1 and an empty registry.
C10_ResetYieldsTitle ==
    lastOp = "resetGame" =>
        /\ gameState = TITLE_SCREEN_SCENE
        /\ score = 0
        /\ currentLevel = 1
        /\ gameWorldObjects = <<>>

C10_Witness ==
    /\ lastOp = "resetGame"
    /\ resetFrom.gameState = GAME_OVER_SCENE
    /\ resetFrom.score > 0
    /\ resetFrom.currentLevel = 2
    /\ resetFrom.length > 1
    /\ gameWorldObjects = <<>>

\* the registry of a level that has just been set up
FreshLevel(objs, level) ==
    /\ Len(objs) = level + 1
    /\ NumOf(objs, "Ship") = 1
    /\ NumOf(objs, "Bullet") = 0
    /\ NumOf(objs, "Asteroid") = level
    /\ \A k \in 1..Len(objs) : IsAsteroid(objs[k]) => objs[k].nominal = RadiusLarge

Started == lastOp \in {"startGame", "playNextLevel"}

\* C11 (as amended): when startGame has run initializeGameWorldObjects, before
\* the tick it runs itself handles input, the scene is MAIN_LEVEL and the
\* registry holds one Ship, currentLevel LARGE asteroids and nothing else.
C11_StartSetsUpLevel ==
    Started =>
        /\ gameState = MAIN_LEVEL_SCENE
        /\ lastUpdate.kind = "input"
        /\ FreshLevel(lastUpdate.before, currentLevel)

\* C11 (as stated): once startGame has begun the simulation the registry
\* holds one Ship, currentLevel LARGE asteroids and no Bullet.
C11_NoBulletAfterStart ==
    Started => FreshLevel(gameWorldObjects, currentLevel)

C11_Witness ==
    /\ lastOp = "playNextLevel"
    /\ currentLevel = 2
    /\ NumOf(lastUpdate.before, "Asteroid") = 2
    /\ NumOf(gameWorldObjects, "Bullet") = 1

C13_PositionInsidePlayfield ==
    lastOp = "advance" =>
        /\ 0 <= gameWorldObjects[1].x /\ gameWorldObjects[1].x < CanvasWidth
        /\ 0 <= gameWorldObjects[1].y /\ gameWorldObjects[1].y < CanvasHeight

\* the number of axes on which o leaves the playfield when its velocity is
\* added to its position
AxesCrossed(o) ==
    (IF o.x + o.vx > CanvasWidth \/ o.x + o.vx < 0 THEN 1 ELSE 0)
      + (IF o.y + o.vy > CanvasHeight \/ o.y + o.vy < 0 THEN 1 ELSE 0)

\* C14: an update() call raises timesWarped of the updated object by the
\* number of axes it crossed (0, 1 or 2) and leaves it alone in every other
\* object; no other step changes the timesWarped of an object that stays in
\* the registry.
C14_WrapCountPerAxis ==
    [][/\ lastOp' = "update" =>
            \A k \in 1..Len(gameWorldObjects), m \in 1..Len(gameWorldObjects') :
                gameWorldObjects[k].id = gameWorldObjects'[m].id =>
                    gameWorldObjects'[m].timesWarped
                        = gameWorldObjects[k].timesWarped
                            + (IF k = i + 1 THEN AxesCrossed(gameWorldObjects[k]) ELSE 0)
       /\ lastOp' \in {"frame", "endTick", "playGameOverScene",
                       "playLevelReadyScene", "playMainLevelScene"} =>
            \A k \in 1..Len(gameWorldObjects) :
                k <= Len(gameWorldObjects') =>
                    gameWorldObjects'[k].timesWarped = gameWorldObjects[k].timesWarped]_vars

C14_Witness ==
    /\ lastOp = "update"
    /\ lastUpdate.kind = "Asteroid"
    /\ \E k \in 1..Len(gameWorldObjects) :
         /\ gameWorldObjects[k].id = lastUpdate.id
         /\ gameWorldObjects[k].timesWarped = 2
         /\ lastUpdate.before[k].timesWarped = 0

\* the offsets of the outline vertices from the position
Offsets(o) ==
    [k \in 1..Len(o.geometry) |->
        [x |-> o.geometry[k].x - o.x, y |-> o.geometry[k].y - o.y]]

\* C15: the base update keeps every outline vertex at the same offset from
\* the position, with and without a wrap on either axis.
C15_OutlineFollowsPosition ==
    lastOp = "advance" =>
        /\ Len(gameWorldObjects[1].geometry) = Len(lastUpdate.before[1].geometry)
        /\ Offsets(gameWorldObjects[1]) = Offsets(lastUpdate.before[1])

C15_Witness ==
    /\ lastOp = "advance"
    /\ gameWorldObjects[1].timesWarped = 2
    /\ Len(gameWorldObjects[1].geometry) = 4
    /\ Offsets(gameWorldObjects[1]) = Offsets(lastUpdate.before[1])

\* C16: every object in the registry has 0 <= angle < 360.
C16_AngleNormalized ==
    \A k \in 1..Len(gameWorldObjects) :
        0 <= gameWorldObjects[k].angle /\ gameWorldObjects[k].angle < 360

\* a numeric value: a number, or for setPosition's one-argument form an
\* object whose x and y are numbers
IsNumber(a) == a.t = "number"

WellFormedPosition(args) ==
    \/ IsNumber(args[1]) /\ IsNumber(args[2])
    \/ /\ args[1].t = "object"
       /\ IsNumber(args[1].x) /\ IsNumber(args[1].y)
       /\ args[2].t = "undefined"

\* C17: setPosition and setAngle called with a non-numeric or absent
\* argument do not throw and leave position and angle as they were.
C17_SettersIgnoreNonNumeric ==
    /\ (lastUpdate.kind = "setPosition" /\ ~WellFormedPosition(lastUpdate.args)) =>
          /\ ~lastUpdate.raised
          /\ lastUpdate.position = lastUpdate.old.position
          /\ lastUpdate.angle = lastUpdate.old.angle
    /\ (lastUpdate.kind = "setAngle" /\ ~IsNumber(lastUpdate.args[1])) =>
          /\ ~lastUpdate.raised
          /\ lastUpdate.position = lastUpdate.old.position
          /\ lastUpdate.angle = lastUpdate.old.angle

\* handleUserInput has just run: the registry is what it left
AfterInput == lastUpdate.kind = "input" /\ pc = "update" /\ i = 0

\* fire() was called (space held) more than fireRate after lastFired
CooledDown == 32 \in lastUpdate.keys /\ lastUpdate.elapsed > FireRateMs

\* o with its angle set aside
Unturned(o) == [o EXCEPT !.angle = 0]

\* C18: fire() adds a Bullet iff more than fireRate (200 ms) has passed since
\* lastFired; then it adds exactly one, at the ship's position with the
\* ship's angle, and lastFired becomes now; otherwise the registry and
\* lastFired stay as they were.
C18_FireIffCooledDown ==
    AfterInput =>
        LET before == Renumber(lastUpdate.before)
            n == Len(before)
            ship == gameWorldObjects[1]
        IN /\ Unturned(ship) = Unturned(before[1])
           /\ SubSeq(gameWorldObjects, 2, n) = SubSeq(before, 2, n)
           /\ IF CooledDown
                THEN /\ Len(gameWorldObjects) = n + 1
                     /\ gameWorldObjects[n + 1].kind = "Bullet"
                     /\ gameWorldObjects[n + 1].x = ship.x
                     /\ gameWorldObjects[n + 1].y = ship.y
                     /\ gameWorldObjects[n + 1].angle = ship.angle
                     /\ sinceFired = 0
                ELSE /\ Len(gameWorldObjects) = n
                     /\ sinceFired = lastUpdate.elapsed

\* a second bullet fired with the first still in the registry
C18_Witness ==
    /\ AfterInput
    /\ CooledDown
    /\ NumOf(lastUpdate.before, "Bullet") = 1
    /\ NumOf(gameWorldObjects, "Bullet") = 2

Generated == lastUpdate.kind = "generateAsteroids"

\* the objects the call added
Added == Len(gameWorldObjects) - Len(lastUpdate.before)

\* the square of the distance between the positions of a and b
Distance2(a, b) == (a.x - b.x) * (a.x - b.x) + (a.y - b.y) * (a.y - b.y)

\* the k-th added asteroid is 4 * LARGE or more from every object that was in
\* the registry when it was placed
Separated(k) ==
    LET m == Len(lastUpdate.before) + k
    IN \A j \in 1..(m - 1) :
         Distance2(gameWorldObjects[j], gameWorldObjects[m])
           >= (4 * RadiusLarge) * (4 * RadiusLarge)

\* the call kept the registry it found and appended LARGE asteroids, each
\* separated from the objects before it unless 100 candidates were rejected
PlacedWithin(n) ==
    /\ Added = n
    /\ SubSeq(gameWorldObjects, 1, Len(lastUpdate.before)) = lastUpdate.before
    /\ \A k \in 1..Added :
         LET a == gameWorldObjects[Len(lastUpdate.before) + k]
         IN /\ a.kind = "Asteroid"
            /\ a.nominal = RadiusLarge
            /\ lastUpdate.numRetries[k] <= RetryCap
            /\ lastUpdate.numRetries[k] = RetryCap \/ Separated(k)

CallbackRuns == pendingFrames' < pendingFrames

\* C20: when a tick has moved the scene from MAIN_LEVEL to WIN_LEVEL or
\* GAME_OVER, the callback it scheduled starts no tick (so schedules no
\* callback) and shows the level-ready or the game-over overlay, whatever
\* keys are pressed before it runs.
C20_LeavingStopsChainAndShowsOverlay ==
    [][(leftPlaying # "none" /\ CallbackRuns) =>
          /\ pc' = "idle"
          /\ leftPlaying = WIN_LEVEL_SCENE => overlay'.levelReady
          /\ leftPlaying = GAME_OVER_SCENE => overlay'.gameOver]_vars

\* C21: no key command (Enter, P, R, F) in any scene ends with an error.
C21_NoCommandRaises == raised = "none"

\* the next step is the update() of a Bullet
BulletStep == pc = "update" /\ i < Len(gameWorldObjects) /\ Current.kind = "Bullet"

\* the slots of objs holding an asteroid within collision distance of o
Colliding(objs, o) ==
    {k \in 1..Len(objs) : IsAsteroid(objs[k]) /\ Collides(o, objs[k])}

\* the asteroids of objs other than the first one within collision distance
\* of o
Spared(objs, o) ==
    {k \in 1..Len(objs) :
        /\ IsAsteroid(objs[k])
        /\ \/ k \notin Colliding(objs, o)
           \/ \E m \in Colliding(objs, o) : m < k}

\* C22: one Bullet.update() explodes only the first asteroid in registry order
\* that is within collision distance and scores once; every other asteroid
\* stays in the registry unchanged.
C22_OneAsteroidPerBulletUpdate ==
    [][BulletStep =>
         LET pre == lastUpdate'.pre
             bullet == pre[i + 1]
         IN /\ score' - score \in {0, ScoreLarge, ScoreMedium, ScoreSmall}
            /\ \A k \in Colliding(pre, bullet) \ Spared(pre, bullet) :
                 pre[k].id \notin Ids(gameWorldObjects')
            /\ \A k \in Spared(pre, bullet) :
                 \E m \in 1..Len(gameWorldObjects') :
                    Same(gameWorldObjects'[m], pre[k])]_vars

\* C26: a Bullet.update() removes nothing but the bullet itself and the
\* asteroid it exploded: every other entity in the registry after explode(),
\* the spawned children included, is still there when update() returns.
C26_BulletRemovesOnlyItselfAndTarget ==
    lastUpdate.kind = "Bullet" =>
        LET kept == IF lastUpdate.hit THEN lastUpdate.post ELSE lastUpdate.pre
        IN \A k \in 1..Len(kept) :
              kept[k].id # lastUpdate.id => kept[k].id \in Ids(gameWorldObjects)

\* C23: the score stays a non-negative integer; a step changes it only by
\* resetGame (to 0) or by a Bullet.update() that hit an asteroid, which adds
\* 20, 50 or 100; no other step, scene transitions included, changes it.
C23_ScoreChangesOnlyByHitsAndReset ==
    [][/\ score' \in Nat
       /\ score' # score =>
            IF lastOp' = "resetGame" THEN score' = 0
            ELSE /\ BulletStep
                 /\ lastUpdate'.hit
                 /\ score' - score \in {ScoreLarge, ScoreMedium, ScoreSmall}]_vars

\* a hit in level 2 adds to the score brought over from level 1
C23_Witness ==
    /\ currentLevel = 2
    /\ lastUpdate.kind = "Bullet"
    /\ lastUpdate.hit
    /\ score > lastUpdate.points
    /\ hits.large = 2

\* the step is a playMainLevelScene callback that found another scene than
\* MAIN_LEVEL
IdleCallback ==
    /\ pc = "idle"
    /\ gameState # MAIN_LEVEL_SCENE
    /\ lastOp' \in {"playGameOverScene", "playLevelReadyScene", "playMainLevelScene"}

\* C24: a frame callback that runs in another scene than MAIN_LEVEL changes
\* no entity, not the registry and not the score, starts no tick and
\* schedules no callback; a tick starts only in MAIN_LEVEL.
C24_NoStepOutsidePlaying ==
    [][/\ IdleCallback =>
            /\ gameWorldObjects' = gameWorldObjects
            /\ score' = score
            /\ gameState' = gameState
            /\ pc' = "idle"
            /\ pendingFrames' = pendingFrames - 1
       /\ (pc = "idle" /\ pc' = "update") => gameState' = MAIN_LEVEL_SCENE]_vars

\* the game-over callback has run on a registry with entities and a score
C24_Witness ==
    /\ lastOp = "playGameOverScene"
    /\ gameState = GAME_OVER_SCENE
    /\ Len(gameWorldObjects) > 1
    /\ score > 0
    /\ pendingFrames = 0

\* C25: at most one playMainLevelScene callback is pending at any time.
C25_AtMostOnePendingFrame == pendingFrames <= 1

\* C27: every entity in the registry stores its own slot.
C27_StoredIndexIsSlot ==
    \A k \in 1..Len(gameWorldObjects) : gameWorldObjects[k].gameWorldIndex = k - 1

\* a bullet that hit and wrapped has called explode() and destroy() twice,
\* and children are left in the registry
C27_Witness ==
    /\ lastUpdate.kind = "Bullet"
    /\ lastUpdate.hit
    /\ lastUpdate.warped = 1
    /\ Len(gameWorldObjects) >= 3
    /\ Len(gameWorldObjects) < Len(lastUpdate.post) - 1

\* C28: in MAIN_LEVEL, WIN_LEVEL and GAME_OVER the registry holds exactly one
\* Ship, in slot 0, and the first update() of every tick is the ship's.
C28_OneShipInSlotZero ==
    gameState \in {MAIN_LEVEL_SCENE, WIN_LEVEL_SCENE, GAME_OVER_SCENE} =>
        /\ NumOf(gameWorldObjects, "Ship") = 1
        /\ gameWorldObjects[1].kind = "Ship"
        /\ (pc = "update" /\ i >= 1) => updated[1] = gameWorldObjects[1].id

\* a bullet that hit and wrapped has called destroy() twice, two entities
\* are gone, and the ship is still the same object in slot 0
C28_Witness ==
    /\ gameState = MAIN_LEVEL_SCENE
    /\ lastUpdate.kind = "Bullet"
    /\ lastUpdate.hit
    /\ lastUpdate.warped = 1
    /\ lastUpdate.pre[1].kind = "Ship"
    /\ gameWorldObjects[1] = lastUpdate.pre[1]
    /\ Len(gameWorldObjects) = Len(lastUpdate.post) - 2

\* the asteroids of objs constructed with radius nominal
Tier(objs, nominal) ==
    Cardinality({k \in 1..Len(objs) : IsAsteroid(objs[k]) /\ objs[k].nominal = nominal})

\* 9 * L + 3 * M + S: the SMALL asteroids objs can still break into
Weight(objs) ==
    9 * Tier(objs, RadiusLarge) + 3 * Tier(objs, RadiusMedium)
      + Tier(objs, RadiusSmall)

\* the score the asteroids of objs can still give: a LARGE one 20, its three
\* MEDIUM children 50 each, their nine SMALL children 100 each
Worth(objs) ==
    (ScoreLarge + 3 * ScoreMedium + 9 * ScoreSmall) * Tier(objs, RadiusLarge)
      + (ScoreMedium + 3 * ScoreSmall) * Tier(objs, RadiusMedium)
      + ScoreSmall * Tier(objs, RadiusSmall)

\* the asteroids of objs respect the bounds of a level in which gained
\* points have been scored
WithinLevel(objs, level, gained) ==
    /\ Weight(objs) <= 9 * level
    /\ NumOf(objs, "Asteroid") <= 9 * level
    /\ gained + Worth(objs) <= 1070 * level

\* C29: after every step 9 * L + 3 * M + S <= 9 * currentLevel, so at most
\* 9 * currentLevel asteroids exist at once, and the score gained in the level
\* plus what the asteroids left can give is at most 1070 * currentLevel; and
\* 9 * L + 3 * M + S never increases except when startGame sets up a level.
C29_WeightBoundedAndNeverIncreases ==
    [][/\ WithinLevel(gameWorldObjects', currentLevel', score' - startScore')
       /\ lastOp' \notin {"startGame", "playNextLevel"} =>
            Weight(gameWorldObjects') <= Weight(gameWorldObjects)]_vars

\* in level 2 both LARGE asteroids have been split and six MEDIUM ones exist
C29_Witness ==
    /\ currentLevel = 2
    /\ Tier(gameWorldObjects, RadiusMedium) = 6
    /\ Weight(gameWorldObjects) = 18
    /\ score - startScore = 2 * ScoreLarge

\* the updates after which a bullet fired at the centre has crossed an edge
CrossingUpdates ==
    (((IF CanvasWidth > CanvasHeight THEN CanvasWidth ELSE CanvasHeight) \div 2)
        \div BulletMaxVelocity) + 1

\* the update loop of a tick has run to its end
TickDone == pc = "update" /\ i >= Len(gameWorldObjects)

\* 1 when the bullet in slot k had its update() in this tick, else 0
UpdatedInTick(k) == IF Count(updated, gameWorldObjects[k].id) > 0 THEN 1 ELSE 0

\* the updates a bullet can still receive plus the entities in front of it
Rank(received, slot) == (CrossingUpdates - received) + slot

\* C30: while the scene is Playing, every bullet in the registry is on its
\* way out. A bullet has had fewer than CrossingUpdates updates, and every
\* tick it survives lowers its rank (updates left plus entities in front of
\* it): a tick that skips its update has removed an entity in front of it.
\* The rank is never negative, so after finitely many ticks the bullet is
\* removed.
C30_BulletRankFallsEveryTick ==
    \A k \in 1..Len(gameWorldObjects) :
        gameWorldObjects[k].kind = "Bullet" =>
            /\ gameWorldObjects[k].updates < CrossingUpdates
            /\ (TickDone /\ gameState = MAIN_LEVEL_SCENE) =>
                    Rank(gameWorldObjects[k].updates, k - 1)
                        < Rank(gameWorldObjects[k].updates - UpdatedInTick(k),
                               gameWorldObjects[k].id)

\* a bullet whose update was skipped in the tick that just ran, still there
C30_Witness ==
    /\ TickDone
    /\ gameState = MAIN_LEVEL_SCENE
    /\ \E k \in 1..Len(gameWorldObjects) :
            /\ gameWorldObjects[k].kind = "Bullet"
            /\ UpdatedInTick(k) = 0
            /\ gameWorldObjects[k].updates >= 1

====
